---- MODULE Spec2Model ----
(***************************************************************************)
(* Model of google/safeopen: path validation and the component walks of    *)
(* the Linux (openat2 fast path + legacy walk), non-Linux unix and Windows *)
(* backends, run against a small mutable file system and descriptor table. *)
(*                                                                         *)
(* A path is a sequence of one-character strings, so that Split, Cut,      *)
(* TrimLeft, HasPrefix and filepath.Clean are computed as the Go code      *)
(* computes them.  A file-system node is the sequence of the names on the  *)
(* way from the root; <<>> is the root, the parent of the base directory.  *)
(***************************************************************************)
EXTENDS Integers, Sequences, FiniteSets, TLC

\* ------------------------------------------------------------------ bounds
MaxSegs == 3      \* input paths have at most this many separator-split segments
MaxCalls == 1     \* API calls made in one behaviour
MaxSymlinks == 2  \* nested symlinks the kernel follows before ELOOP
MaxProbes == 2    \* failed openat2 probes counted in one behaviour

\* ------------------------------------------------------- strings (Go stdlib)
Last(s) == s[Len(s)]
Front(s) == SubSeq(s, 1, Len(s) - 1)

\* strings.HasPrefix
HasPrefix(s, p) == Len(s) >= Len(p) /\ SubSeq(s, 1, Len(p)) = p

\* strings.Contains for a one-character needle
Contains(s, c) == \E i \in 1..Len(s) : s[i] = c

\* index of the first c in s, 0 when absent
IndexOf(s, c) == IF Contains(s, c) THEN CHOOSE i \in 1..Len(s) : s[i] = c /\ \A j \in 1..(i-1) : s[j] # c ELSE 0

\* strings.Cut(s, sep): <<before, after, found>>
Cut(s, c) ==
  LET i == IndexOf(s, c)
  IN  IF i = 0 THEN <<s, <<>>, FALSE>>
      ELSE <<SubSeq(s, 1, i - 1), SubSeq(s, i + 1, Len(s)), TRUE>>

\* strings.Split(s, sep): always at least one (possibly empty) segment
RECURSIVE Split(_, _)
Split(s, c) ==
  LET r == Cut(s, c)
  IN  IF r[3] THEN <<r[1]>> \o Split(r[2], c) ELSE <<s>>

\* strings.Join
RECURSIVE Join(_, _)
Join(segs, c) ==
  IF Len(segs) = 0 THEN <<>>
  ELSE IF Len(segs) = 1 THEN segs[1]
  ELSE segs[1] \o <<c>> \o Join(Tail(segs), c)

\* strings.TrimLeft(s, c) for a one-character cutset
RECURSIVE TrimLeft(_, _)
TrimLeft(s, c) == IF Len(s) > 0 /\ s[1] = c THEN TrimLeft(Tail(s), c) ELSE s

\* strings.ReplaceAll for one-character old and new
ReplaceAll(s, old, new) == [i \in 1..Len(s) |-> IF s[i] = old THEN new ELSE s[i]]

Dot == <<".">>
DotDot == <<".", ".">>

\* the component stack of filepath.Clean: "" and "." are dropped, ".." pops a
\* real component, is dropped at the root, and is kept in a relative path
RECURSIVE CleanStack(_, _, _)
CleanStack(comps, out, rooted) ==
  IF Len(comps) = 0 THEN out
  ELSE LET c == comps[1] IN
       IF c = <<>> \/ c = Dot THEN CleanStack(Tail(comps), out, rooted)
       ELSE IF c = DotDot THEN
              IF Len(out) > 0 /\ Last(out) # DotDot THEN CleanStack(Tail(comps), Front(out), rooted)
              ELSE IF rooted THEN CleanStack(Tail(comps), out, rooted)
              ELSE CleanStack(Tail(comps), Append(out, c), rooted)
       ELSE CleanStack(Tail(comps), Append(out, c), rooted)

\* filepath.Clean with separator sep (no volume names)
Clean(path, sep) ==
  IF Len(path) = 0 THEN Dot
  ELSE LET rooted == path[1] = sep
           body == Join(CleanStack(Split(path, sep), <<>>, rooted), sep)
           res == IF rooted THEN <<sep>> \o body ELSE body
       IN  IF Len(res) = 0 THEN Dot ELSE res

\* the loop "for p := path; p != ""; { part, p, _ = strings.Cut(p, sep) ... }"
RECURSIVE HasDots(_, _)
HasDots(p, sep) ==
  IF Len(p) = 0 THEN FALSE
  ELSE LET r == Cut(p, sep)
       IN  IF r[1] = Dot \/ r[1] = DotDot THEN TRUE ELSE HasDots(r[2], sep)

\* -------------------------------------------------------------- file system
\* names used by the trees and the inputs
NameA == <<"a">>
NameB == <<"b">>
NameD == <<"d">>
RootNode == <<>>
BaseNode == <<NameD>>

DirN == [kind |-> "dir", data |-> <<>>, target |-> <<>>, isdir |-> TRUE]
FileN(d) == [kind |-> "file", data |-> d, target |-> <<>>, isdir |-> FALSE]
\* a symbolic link with its target text; isdir is the directory attribute a
\* Windows link carries
LinkN(t, isdir) == [kind |-> "link", data |-> <<>>, target |-> t, isdir |-> isdir]

Parent(n) == IF Len(n) = 0 THEN n ELSE Front(n)
IsBeneath(n, base) == HasPrefix(n, base)

\* The trees a behaviour starts from.  Every tree has the base directory /d
\* and a file /b outside of it.
TreeSkeleton == (RootNode :> DirN) @@ (<<NameB>> :> FileN(<<9>>)) @@ (BaseNode :> DirN)
\* only b exists in the base (with content)
TreeFlat == TreeSkeleton @@ (<<NameD, NameB>> :> FileN(<<1, 2>>))
\* nested directories, no link
TreeNested == TreeSkeleton @@ (<<NameD, NameB>> :> FileN(<<1, 2>>)) @@ (<<NameD, NameA>> :> DirN)
                @@ (<<NameD, NameA, NameA>> :> DirN) @@ (<<NameD, NameA, NameB>> :> FileN(<<3>>))
                @@ (<<NameD, NameA, NameA, NameB>> :> FileN(<<4>>))
\* links that stay in the base: a -> b (a directory), b/b -> a (a file)
TreeLinksIn == TreeSkeleton @@ (<<NameD, NameB>> :> DirN) @@ (<<NameD, NameA>> :> LinkN(NameB, TRUE))
                @@ (<<NameD, NameB, NameA>> :> FileN(<<5>>)) @@ (<<NameD, NameB, NameB>> :> LinkN(NameA, FALSE))
\* links that leave the base: a -> ../b, b -> /b
TreeLinksOut == TreeSkeleton @@ (<<NameD, NameA>> :> LinkN(<<".", ".", "/", "b">>, FALSE))
                @@ (<<NameD, NameB>> :> LinkN(<<"/", "b">>, FALSE))
Trees == {TreeFlat, TreeNested, TreeLinksIn, TreeLinksOut}

SymlinkFree(f) == \A n \in DOMAIN f : f[n].kind # "link"

\* result of an open of the operating system
KOk(f, n) == [ok |-> TRUE, node |-> n, errno |-> "", fs |-> f]
KFail(f, e) == [ok |-> FALSE, node |-> <<>>, errno |-> e, fs |-> f]

NonEmpty(seg) == Len(seg) > 0
Components(path, sep) == SelectSeq(Split(path, sep), NonEmpty)

\* open(2) of an absolute directory name with O_RDONLY|O_DIRECTORY
KOpenDir(f, directory) ==
  LET n == Components(directory, "/")
  IN  IF n \notin DOMAIN f THEN KFail(f, "ENOENT")
      ELSE IF f[n].kind # "dir" THEN KFail(f, "ENOTDIR")
      ELSE KOk(f, n)

Writes(flags) == "O_RDWR" \in flags \/ "O_CREATE" \in flags

\* the last step of an open: the object exists and is no link
KOpenExisting(f, n, flags) ==
  IF f[n].kind = "dir"
  THEN IF Writes(flags) THEN KFail(f, "EISDIR") ELSE KOk(f, n)
  ELSE IF "O_DIRECTORY" \in flags THEN KFail(f, "ENOTDIR")
  ELSE IF "O_TRUNC" \in flags /\ "O_RDWR" \in flags
       THEN KOk([f EXCEPT ![n].data = <<>>], n)
       ELSE KOk(f, n)

\* openat(2) of one name (no separator in it) with O_NOFOLLOW in flags
KOpenat(f, cur, name, flags) ==
  LET child == Append(cur, name) IN
  IF Len(name) = 0 THEN KFail(f, "ENOENT")
  ELSE IF name = Dot THEN KOpenExisting(f, cur, flags)
  ELSE IF name = DotDot THEN KOpenExisting(f, Parent(cur), flags)
  ELSE IF child \notin DOMAIN f
       THEN IF "O_CREATE" \in flags /\ "O_DIRECTORY" \notin flags
            THEN KOk(f @@ (child :> FileN(<<>>)), child)
            ELSE KFail(f, "ENOENT")
  ELSE IF f[child].kind = "link"
       THEN IF "O_DIRECTORY" \in flags THEN KFail(f, "ENOTDIR") ELSE KFail(f, "ELOOP")
  ELSE KOpenExisting(f, child, flags)

\* the walk of openat2(2) under RESOLVE_BENEATH: links are followed unless
\* RESOLVE_NO_SYMLINKS is given, and nothing may leave base; with O_CREAT a
\* last component that is followed by a separator is answered with EISDIR
\* before it is looked up
RECURSIVE KWalk(_, _, _, _, _, _, _, _)
KWalk(f, base, cur, comps, flags, resolve, mustDir, fuel) ==
  IF Len(comps) = 0
  THEN KOpenExisting(f, cur, IF mustDir THEN flags \cup {"O_DIRECTORY"} ELSE flags)
  ELSE LET c == Head(comps)
           rest == Tail(comps)
           child == Append(cur, c)
       IN  IF c = Dot THEN KWalk(f, base, cur, rest, flags, resolve, mustDir, fuel)
           ELSE IF c = DotDot
                THEN IF cur = base THEN KFail(f, "EXDEV")
                     ELSE KWalk(f, base, Parent(cur), rest, flags, resolve, mustDir, fuel)
           ELSE IF Len(rest) = 0 /\ mustDir /\ "O_CREATE" \in flags THEN KFail(f, "EISDIR")
           ELSE IF child \notin DOMAIN f
                THEN IF Len(rest) = 0 /\ "O_CREATE" \in flags
                     THEN KOk(f @@ (child :> FileN(<<>>)), child)
                     ELSE KFail(f, "ENOENT")
           ELSE IF f[child].kind = "link"
                THEN IF "RESOLVE_NO_SYMLINKS" \in resolve \/ fuel = 0 THEN KFail(f, "ELOOP")
                     ELSE IF HasPrefix(f[child].target, <<"/">>) THEN KFail(f, "EXDEV")
                     ELSE KWalk(f, base, cur, Components(f[child].target, "/") \o rest,
                                flags, resolve, mustDir, fuel - 1)
           ELSE IF f[child].kind = "file" /\ Len(rest) > 0 THEN KFail(f, "ENOTDIR")
           ELSE KWalk(f, base, child, rest, flags, resolve, mustDir, fuel)

\* openat2(2) with RESOLVE_BENEATH on a kernel that has it; the open_how is
\* checked before the path is read: a mode without O_CREAT is EINVAL
KOpenat2(f, base, path, flags, mode, resolve) ==
  IF mode # 0 /\ "O_CREATE" \notin flags THEN KFail(f, "EINVAL")
  ELSE IF Len(path) = 0 THEN KFail(f, "ENOENT")
  ELSE IF path[1] = "/" THEN KFail(f, "EXDEV")
  ELSE KWalk(f, base, base, Components(path, "/"), flags, resolve, Last(path) = "/", MaxSymlinks)

\* NtCreateFile relative to an open directory, with FILE_OPEN_REPARSE_POINT:
\* a link is opened as the object it is and never followed; "." and ".." are
\* ordinary (and invalid) names; the empty name is the directory itself
KNtCreateFile(f, cur, name, disposition, dirOption) ==
  LET child == Append(cur, name)
      n == IF Len(name) = 0 THEN cur ELSE child
  IN  IF name = Dot \/ name = DotDot THEN KFail(f, "STATUS_OBJECT_NAME_INVALID")
      ELSE IF n \notin DOMAIN f
           THEN IF f[cur].kind = "link" THEN KFail(f, "STATUS_OBJECT_NAME_NOT_FOUND")
                ELSE IF disposition = "FILE_OPEN" \/ dirOption THEN KFail(f, "STATUS_OBJECT_NAME_NOT_FOUND")
                ELSE KOk(f @@ (n :> FileN(<<>>)), n)
      ELSE IF disposition = "FILE_CREATE" THEN KFail(f, "STATUS_OBJECT_NAME_COLLISION")
      ELSE IF f[n].isdir # dirOption
           THEN KFail(f, IF dirOption THEN "STATUS_NOT_A_DIRECTORY" ELSE "STATUS_FILE_IS_A_DIRECTORY")
      ELSE IF disposition = "FILE_OVERWRITE_IF"
           THEN IF f[n].kind = "link" THEN KFail(f, "STATUS_INVALID_PARAMETER")
                ELSE KOk([f EXCEPT ![n].data = <<>>], n)
      ELSE KOk(f, n)

\* ---------------------------------------------------------- path validators
\* the test of "path == ".." || strings.HasPrefix(path, "../")"
Escapes(path, sep) == path = DotDot \/ HasPrefix(path, DotDot \o <<sep>>)

\* safeopen_linux.go canTraverseUnixRelPath: <<sanitized path, safe>>
canTraverseUnixRelPath(path) ==
  IF Len(path) = 0 THEN <<<<>>, FALSE>>
  ELSE LET trimmed == TrimLeft(path, "/")
           cleaned == IF HasDots(trimmed, "/") THEN Clean(trimmed, "/") ELSE trimmed
       IN  IF Escapes(cleaned, "/") THEN <<<<>>, FALSE>> ELSE <<cleaned, TRUE>>

\* safeopen_nix.go unixRelativePathDoesntTraverse: the cleaned path is only tested
unixRelativePathDoesntTraverse(path) ==
  IF Len(path) = 0 THEN FALSE
  ELSE LET cleaned == IF HasDots(path, "/") THEN Clean(path, "/") ELSE path
       IN  ~Escapes(cleaned, "/")

\* safeopen_win.go winRelativePathDoesntTraverse: <<sanitized path, safe>>
winRelativePathDoesntTraverse(path) ==
  IF Len(path) = 0 THEN <<<<>>, FALSE>>
  ELSE IF Contains(path, "?") THEN <<<<>>, FALSE>>
  ELSE LET norm == ReplaceAll(path, "/", "\\")
           cleaned == IF HasDots(norm, "\\") THEN Clean(norm, "\\") ELSE norm
       IN  IF Escapes(cleaned, "\\") THEN <<<<>>, FALSE>> ELSE <<cleaned, TRUE>>

\* winIsSimpleFilename without the test for the backslash
winIsSimpleFilenameSlashOnly(path) ==
  ~(Contains(path, "/") \/ path = Dot \/ path = DotDot)

\* safeopen_win.go winIsSimpleFilename
winIsSimpleFilename(path) ==
  ~(Contains(path, "/") \/ Contains(path, "\\") \/ path = Dot \/ path = DotDot)

\* unixIsFilename (safeopen_nix_common.go): no separator, not "." and not ".."
unixIsFilename(path) == ~(Contains(path, "/") \/ path = Dot \/ path = DotDot)

\* ------------------------------------------------------------------- errors
NoErr == [kind |-> "nil", op |-> "", path |-> <<>>, cause |-> ""]
Errno(e) == [kind |-> "Errno", op |-> "", path |-> <<>>, cause |-> e]
PathError(op, path, cause) == [kind |-> "PathError", op |-> op, path |-> path, cause |-> cause]
InvalidFilename == "invalid filename"

\* the same set with EXDEV (the path would leave the base) added
UnsupportedErrnosWithExdev == {"ENOSYS", "ENOTSUP", "EOPNOTSUPP", "EINVAL", "EXDEV"}

\* the errors openFileImplBeneath takes as "openat2 is not usable"
UnsupportedErrnos == {"ENOSYS", "ENOTSUP", "EOPNOTSUPP", "EINVAL"}

\* what a kernel without it answers: ENOSYS when there is no openat2 at all,
\* EINVAL when openat2 does not know RESOLVE_BENEATH
NoOpenat2Errnos == {"ENOSYS", "EINVAL"}

\* -------------------------------------------------------------------- flags
O_RDONLY == {}
\* the create flags without os.O_TRUNC
CreateFlagsNoTrunc == {"O_RDWR", "O_CREATE"}
\* os.O_RDWR|os.O_CREATE|os.O_TRUNC of CreateAt, CreateBeneath and writeFile
CreateFlags == {"O_RDWR", "O_CREATE", "O_TRUNC"}
\* flags of the generalized calls OpenFileAt and OpenFileBeneath
CreateOnlyFlags == {"O_RDWR", "O_CREATE"}
TruncOnlyFlags == {"O_RDWR", "O_TRUNC"}
\* the flags a caller passes: those of the Open and Create calls, and on
\* Windows, where the disposition is derived from them, the other combinations
\* of O_CREATE and O_TRUNC as well (the unix backends hand the flags to the
\* kernel as they are)
FlagChoices(b) ==
  IF b = "win" THEN {O_RDONLY, CreateFlags, CreateOnlyFlags, TruncOnlyFlags}
  ELSE {O_RDONLY, CreateFlags}

\* perm: 0 of OpenAt, OpenBeneath and readFile, 0666 of CreateAt and
\* CreateBeneath
NoPerm == 0
Perm0666 == 438
\* the perm a caller passes with the flags: the Open calls pass none and the
\* Create calls 0666; OpenFileAt and OpenFileBeneath take any perm with any
\* flags (on Linux, where the mode reaches openat2 as it is; openat(2) of the
\* other unix builds ignores a mode without O_CREAT and Windows ignores perm)
PermChoices(b, flag) ==
  IF "O_CREATE" \in flag THEN {Perm0666}
  ELSE IF b = "linux" THEN {NoPerm, Perm0666}
  ELSE {NoPerm}

\* syscallMode (safeopen_nix_common.go): the permission bits of perm
syscallMode(perm) == perm % 512

\* the disposition openFileBeneath of safeopen_win.go derives from the flags
winDisposition(flag) ==
  IF "O_TRUNC" \in flag THEN "FILE_OVERWRITE_IF"
  ELSE IF "O_CREATE" \in flag THEN "FILE_CREATE"
  ELSE "FILE_OPEN"

\* -------------------------------------------------------------------- state
VARIABLES
  backend,          \* "linux", "nix" or "win": the build
  forceLegacyMode,  \* the package variable of safeopen_linux.go
  openat2Supported, \* whether the kernel has openat2 with RESOLVE_BENEATH
  probes,           \* openat2 calls of the process that failed as unsupported
  fs,               \* the file system: node -> DirN, FileN or LinkN
  fds,              \* the descriptor table of the process: descriptor -> node
  pc,               \* position of the call in progress
  call,             \* arguments of the call in progress
  loc,              \* local variables of the call in progress
  ret,              \* what the call returned: file (-1 is nil) and error
  opened,           \* nodes the call has opened so far, in order
  owned,            \* descriptors the call has opened and not yet closed
  ncalls,           \* calls started so far
  hist,             \* the preceding OpenBeneath call and its outcome
  wrote,            \* the preceding write through a create operation
  lastRead,         \* what the caller read from the returned file
  other             \* pc, call, loc, ret, opened and owned of a second goroutine

vars == <<backend, forceLegacyMode, openat2Supported, probes, fs, fds, pc, call, loc, ret,
          opened, owned, ncalls, hist, wrote, lastRead, other>>

NilFile == -1

\* ------------------------------------------------------------------- inputs
SegNames == {<<>>, Dot, DotDot, NameA, NameB}
SegSeqs == UNION {[1..n -> SegNames] : n \in 1..MaxSegs}
PathsWith(sep) == {Join(segs, sep) : segs \in SegSeqs}
PathsUnix == PathsWith("/")
\* Windows takes both separators; names with a volume prefix (two leading
\* separators) are left out, Clean is modelled without volume names
PathsWin ==
  {p \in PathsWith("/") \cup PathsWith("\\") \cup {<<"?">>} :
     ~(Len(p) >= 2 /\ p[1] \in {"/", "\\"} /\ p[2] \in {"/", "\\"})}
InputPaths(b) == IF b = "win" THEN PathsWin ELSE PathsUnix
ExistingDir == <<"/", "d">>
MissingDir == <<"/", "m">>
Directories == {ExistingDir, MissingDir}
DataChoices == {<<>>, <<7>>}

CallInit == [family |-> "At", flag |-> O_RDONLY, perm |-> NoPerm, directory |-> <<>>,
             file |-> <<>>, follow |-> "none"]
LocInit == [file |-> <<>>, resolveHow |-> {}, dfd |-> -1, adfd |-> -1, odfd |-> -1,
            fd |-> -1, err |-> NoErr, probeErr |-> NoErr, segs |-> <<>>, i |-> 0,
            buf |-> <<>>, ioFailed |-> FALSE]
RetInit == [f |-> NilFile, err |-> NoErr]
NoHist == [valid |-> FALSE, call |-> CallInit, err |-> NoErr, ok |-> FALSE, node |-> <<>>]
NoWrite == [valid |-> FALSE, call |-> CallInit, data |-> <<>>]
NoRead == [valid |-> FALSE, readback |-> FALSE, ok |-> FALSE, data |-> <<>>]

\* a goroutine that is in no call
IdleRegs == [pc |-> "idle", call |-> CallInit, loc |-> LocInit, ret |-> RetInit,
             opened |-> <<>>, owned |-> {}]

Init ==
  /\ backend \in {"linux", "nix", "win"}
  /\ forceLegacyMode \in (IF backend = "linux" THEN BOOLEAN ELSE {FALSE})
  /\ openat2Supported \in (IF backend = "linux" THEN BOOLEAN ELSE {FALSE})
  /\ probes = 0
  /\ fs \in Trees
  /\ fds = <<>>
  /\ pc = "idle"
  /\ call = CallInit
  /\ loc = LocInit
  /\ ret = RetInit
  /\ opened = <<>>
  /\ owned = {}
  /\ ncalls = 0
  /\ hist = NoHist
  /\ wrote = NoWrite
  /\ lastRead = NoRead
  /\ other = IdleRegs

\* what no step of a call changes: the build, the package variable, the
\* kernel, the count of probes, and the goroutine that is not running
Env == <<backend, forceLegacyMode, openat2Supported, probes, other>>
History == <<hist, wrote, lastRead>>

\* ------------------------------------------------------- descriptor table
\* the lowest free descriptor, as open(2) hands it out
FreeFd(t) == CHOOSE n \in 3..(3 + Cardinality(DOMAIN t)) :
               n \notin DOMAIN t /\ \A m \in 3..(n - 1) : m \in DOMAIN t
FdOpen(t, n) == t @@ (FreeFd(t) :> n)
FdClose(t, fd) == [d \in DOMAIN t \ {fd} |-> t[d]]

\* os.NewFile: nil for a negative descriptor
NewFile(fd) == IF fd < 0 THEN NilFile ELSE fd

\* -------------------------------------------------------------- the caller
\* OpenAt, CreateAt, OpenBeneath, CreateBeneath (safeopen.go): the caller
\* picks the family, the flags, the directory and the file
StartCall(c) ==
  /\ pc = "idle"
  /\ pc' = "start"
  /\ call' = c
  /\ loc' = LocInit
  /\ ret' = RetInit
  /\ opened' = <<>>
  /\ owned' = {}
  /\ lastRead' = NoRead
  /\ UNCHANGED <<Env, fs, fds>>

Call ==
  /\ pc = "idle"
  /\ ~hist.valid /\ ~wrote.valid
  /\ ncalls < MaxCalls
  /\ \E family \in {"At", "Beneath"}, flag \in FlagChoices(backend),
        directory \in Directories, file \in InputPaths(backend) :
       \E perm \in PermChoices(backend, flag) :
         StartCall([family |-> family, flag |-> flag, perm |-> perm,
                    directory |-> directory, file |-> file, follow |-> "none"])
  /\ ncalls' = ncalls + 1
  /\ hist' = NoHist
  /\ wrote' = NoWrite

\* the same OpenBeneath call again with a separator put before the file
\* (TestUnixSafeOpenBeneath: "subdir/safeopentarget", "/subdir/safeopentarget")
CallWithLeadingSeparator ==
  /\ pc = "idle"
  /\ hist.valid
  /\ \E sep \in (IF backend = "win" THEN {"/", "\\"} ELSE {"/"}) :
       StartCall([hist.call EXCEPT !.file = <<sep>> \o @, !.follow = "sep"])
  /\ UNCHANGED <<ncalls, hist, wrote>>

\* the same OpenBeneath call again after the test has set forceLegacyMode
\* (TestLinuxDirTraversal: "forceLegacyMode = true", then the same opens)
CallInLegacyMode ==
  /\ pc = "idle"
  /\ hist.valid
  /\ backend = "linux" /\ ~forceLegacyMode
  /\ forceLegacyMode' = TRUE
  /\ pc' = "start"
  /\ call' = [hist.call EXCEPT !.follow = "legacy"]
  /\ loc' = LocInit
  /\ ret' = RetInit
  /\ opened' = <<>>
  /\ owned' = {}
  /\ lastRead' = NoRead
  /\ UNCHANGED <<backend, openat2Supported, probes, other, fs, fds, ncalls, hist, wrote>>

\* the file of the preceding call with its empty segments taken out
WithoutEmptySegments(b, path) ==
  LET sep == IF b = "win" THEN "\\" ELSE "/"
      unified == IF b = "win" THEN ReplaceAll(path, "/", sep) ELSE path
  IN  Join(Components(unified, sep), sep)

\* the same OpenBeneath call again without the empty segments of the file
\* (TestUnixSafeOpenBeneath: "subdir/safeopentarget", "/subdir/safeopentarget")
CallWithoutEmptySegments ==
  /\ pc = "idle"
  /\ hist.valid
  /\ WithoutEmptySegments(backend, hist.call.file) # hist.call.file
  /\ Len(WithoutEmptySegments(backend, hist.call.file)) > 0
  /\ StartCall([hist.call EXCEPT !.file = WithoutEmptySegments(backend, @), !.follow = "noempty"])
  /\ UNCHANGED <<ncalls, hist, wrote>>

\* ReadFileAt / ReadFileBeneath of what WriteFileAt / WriteFileBeneath wrote
\* (TestAt, TestBeneath)
CallReadBack ==
  /\ pc = "idle"
  /\ wrote.valid
  /\ StartCall([wrote.call EXCEPT !.flag = O_RDONLY, !.perm = NoPerm, !.follow = "readback"])
  /\ UNCHANGED <<ncalls, hist, wrote>>

RetNode == IF ret.f = NilFile THEN <<>> ELSE fds[ret.f]

Finish ==
  /\ pc' = "idle"
  /\ fds' = IF ret.f = NilFile THEN fds ELSE FdClose(fds, ret.f)
  /\ call' = CallInit
  /\ loc' = LocInit
  /\ ret' = RetInit
  /\ opened' = <<>>
  /\ owned' = {}
  /\ UNCHANGED <<Env, ncalls>>

\* the caller closes the file it got (or drops the nil it got)
CallerClose ==
  /\ pc = "done"
  /\ Finish
  /\ hist' = NoHist
  /\ wrote' = NoWrite
  /\ UNCHANGED <<fs, lastRead>>

\* the same, the caller going on to repeat this OpenBeneath call with a
\* leading separator
CallerCloseToRepeat ==
  /\ pc = "done"
  /\ call.follow = "none" /\ call.family = "Beneath"
  /\ call.flag = O_RDONLY /\ call.perm = NoPerm
  /\ Finish
  /\ hist' = [valid |-> TRUE, call |-> call, err |-> ret.err,
               ok |-> ret.f # NilFile, node |-> RetNode]
  /\ wrote' = NoWrite
  /\ UNCHANGED <<fs, lastRead>>

\* the caller starts over
CallerForget ==
  /\ pc = "idle"
  /\ hist.valid \/ wrote.valid
  /\ hist' = NoHist
  /\ wrote' = NoWrite
  /\ lastRead' = NoRead
  /\ UNCHANGED <<Env, fs, fds, pc, call, loc, ret, opened, owned, ncalls>>

\* Write at offset 0 of a file
WriteAt0(old, data) ==
  IF Len(old) > Len(data) THEN data \o SubSeq(old, Len(data) + 1, Len(old)) ELSE data

\* f.Write(data) of writeFile: one write(2) at offset 0 of the file just
\* opened; it fails on the nil file a call may return with a nil error
WriteStep(data) ==
  /\ pc = "done"
  /\ ret.err = NoErr
  /\ call.flag = CreateFlags
  /\ call.follow = "none"
  /\ IF ret.f # NilFile /\ fs[RetNode].kind = "file"
     THEN /\ fs' = [fs EXCEPT ![RetNode].data = WriteAt0(@, data)]
          /\ loc' = loc
     ELSE /\ fs' = fs
          /\ loc' = [loc EXCEPT !.ioFailed = TRUE]
  /\ pc' = "written"
  /\ UNCHANGED <<Env, fds, call, ret, opened, owned, ncalls>>

\* writeFile after the creator returned no error: f.Write(data)
CallerWrite ==
  /\ \E data \in DataChoices :
       /\ WriteStep(data)
       /\ wrote' = IF loc'.ioFailed THEN NoWrite ELSE [valid |-> TRUE, call |-> call, data |-> data]
  /\ UNCHANGED <<hist, lastRead>>

\* writeFile: f.Close() after the write
CallerCloseWritten ==
  /\ pc = "written"
  /\ Finish
  /\ hist' = NoHist
  /\ UNCHANGED <<fs, wrote, lastRead>>

\* read(2) at an offset of a file: the bytes from there to the end (the
\* buffer of io.ReadAll, 512 bytes and more, takes them all), none at the end
KRead(f, n, off) ==
  IF Len(f[n].data) > off THEN SubSeq(f[n].data, off + 1, Len(f[n].data)) ELSE <<>>

\* io.ReadAll(f) of readFile, entered when the opener returned no error: a
\* loop of f.Read, one read(2) a step at the offset of the descriptor (the
\* bytes read so far), until a read returns nothing (EOF) or fails; a nil
\* file fails without a read(2)
ReadStep ==
  /\ \/ /\ pc = "done"
        /\ ret.err = NoErr
        /\ call.flag = O_RDONLY /\ call.perm = NoPerm
     \/ pc = "readAll"
  /\ IF ret.f = NilFile \/ fs[RetNode].kind # "file"
     THEN /\ loc' = [loc EXCEPT !.ioFailed = TRUE]
          /\ pc' = "readDone"
     ELSE LET chunk == KRead(fs, RetNode, Len(loc.buf)) IN
          IF Len(chunk) = 0
          THEN /\ loc' = loc
               /\ pc' = "readDone"
          ELSE /\ loc' = [loc EXCEPT !.buf = @ \o chunk]
               /\ pc' = "readAll"
  /\ UNCHANGED <<Env, fs, fds, call, ret, opened, owned, ncalls>>

\* readFile: a step of io.ReadAll; what readFile returns is recorded when
\* the loop ends
CallerReadAll ==
  /\ ReadStep
  /\ lastRead' = IF pc' = "readDone"
                 THEN [valid |-> TRUE, readback |-> call.follow = "readback",
                       ok |-> ~loc'.ioFailed, data |-> loc'.buf]
                 ELSE lastRead
  /\ UNCHANGED <<hist, wrote>>

\* readFile: the deferred f.Close() as readFile returns
CallerCloseRead ==
  /\ pc = "readDone"
  /\ Finish
  /\ hist' = NoHist
  /\ UNCHANGED <<fs, wrote, lastRead>>

\* return (f, err) to the caller
Return(f, e) == ret' = [f |-> f, err |-> e] /\ pc' = "done"

\* one open of the operating system done by the call: the descriptor it
\* returns (-1 on failure), the error, and the effect on the tables
SysOpen(k, dirHandle) ==
  /\ fs' = k.fs
  /\ fds' = IF k.ok THEN FdOpen(fds, k.node) ELSE fds
  /\ opened' = IF k.ok THEN Append(opened, k.node) ELSE opened
  /\ owned' = IF k.ok /\ dirHandle THEN owned \cup {FreeFd(fds)} ELSE owned
SysFd(k) == IF k.ok THEN FreeFd(fds) ELSE -1
SysErr(k) == IF k.ok THEN NoErr ELSE Errno(k.errno)
SysClose(fd) ==
  /\ fds' = FdClose(fds, fd)
  /\ owned' = owned \ {fd}

WalkFlags == {"O_NOFOLLOW", "O_DIRECTORY"}

\* --------------------------------------------------- Linux (safeopen_linux.go)
\* openFileAt passing no RESOLVE_NO_SYMLINKS to openFileImpl
LinuxOpenFileAtNoResolve ==
  /\ pc = "start" /\ backend = "linux" /\ call.family = "At"
  /\ IF ~unixIsFilename(call.file)
     THEN /\ Return(NilFile, PathError("OpenAt", call.file, InvalidFilename))
          /\ UNCHANGED loc
     ELSE /\ loc' = [loc EXCEPT !.file = call.file, !.resolveHow = {}]
          /\ pc' = "openFileImpl"
          /\ UNCHANGED ret
  /\ UNCHANGED <<Env, fs, fds, call, opened, owned, ncalls, History>>

LinuxOpenFileAt ==
  /\ pc = "start" /\ backend = "linux" /\ call.family = "At"
  /\ IF ~unixIsFilename(call.file)
     THEN /\ Return(NilFile, PathError("OpenAt", call.file, InvalidFilename))
          /\ UNCHANGED loc
     ELSE /\ loc' = [loc EXCEPT !.file = call.file, !.resolveHow = {"RESOLVE_NO_SYMLINKS"}]
          /\ pc' = "openFileImpl"
          /\ UNCHANGED ret
  /\ UNCHANGED <<Env, fs, fds, call, opened, owned, ncalls, History>>

\* openFileBeneath opening the directory before it validates the file
LinuxOpenFileBeneathOpenFirst ==
  /\ pc = "start" /\ backend = "linux" /\ call.family = "Beneath"
  /\ LET r == canTraverseUnixRelPath(call.file)
         k == KOpenDir(fs, call.directory)
     IN  /\ SysOpen(k, TRUE)
         /\ IF ~r[2]
            THEN /\ Return(NilFile, PathError("OpenBeneath", r[1], InvalidFilename))
                 /\ UNCHANGED loc
            ELSE IF k.ok
            THEN /\ loc' = [loc EXCEPT !.file = r[1], !.resolveHow = {}, !.dfd = SysFd(k)]
                 /\ pc' = "openFileImplBeneathFirst"
                 /\ UNCHANGED ret
            ELSE /\ Return(NilFile, SysErr(k))
                 /\ UNCHANGED loc
  /\ UNCHANGED <<Env, call, ncalls, History>>

\* "file, safe := canTraverseUnixRelPath(file)" shadows file, so the error
\* carries the (empty) path the validator returned
LinuxOpenFileBeneath ==
  /\ pc = "start" /\ backend = "linux" /\ call.family = "Beneath"
  /\ LET r == canTraverseUnixRelPath(call.file) IN
     IF ~r[2]
     THEN /\ Return(NilFile, PathError("OpenBeneath", r[1], InvalidFilename))
          /\ UNCHANGED loc
     ELSE /\ loc' = [loc EXCEPT !.file = r[1], !.resolveHow = {}]
          /\ pc' = "openFileImpl"
          /\ UNCHANGED ret
  /\ UNCHANGED <<Env, fs, fds, call, opened, owned, ncalls, History>>

\* openFileImpl: unix.Open of the directory
OpenFileImpl ==
  /\ pc = "openFileImpl"
  /\ LET k == KOpenDir(fs, call.directory) IN
     /\ SysOpen(k, TRUE)
     /\ IF k.ok
        THEN /\ loc' = [loc EXCEPT !.dfd = SysFd(k)]
             /\ pc' = "openFileImplBeneathFirst"
             /\ UNCHANGED ret
        ELSE /\ Return(NilFile, SysErr(k))
             /\ UNCHANGED loc
  /\ UNCHANGED <<Env, call, ncalls, History>>

\* openFileImplBeneathFirst, forceLegacyMode set: straight to the legacy walk
OpenFileImplBeneathFirstForced ==
  /\ pc = "openFileImplBeneathFirst"
  /\ forceLegacyMode
  /\ pc' = "openFileImplLegacy"
  /\ UNCHANGED <<Env, fs, fds, call, loc, ret, opened, owned, ncalls, History>>

\* openFileImplBeneathFirst calling openFileImplBeneath: the openat2 call;
\* an error of UnsupportedErrnos sends the call to the legacy walk
OpenFileImplBeneath ==
  /\ pc = "openFileImplBeneathFirst"
  /\ ~forceLegacyMode
  /\ \E e \in NoOpenat2Errnos :
     LET k == IF openat2Supported
              THEN KOpenat2(fs, fds[loc.dfd], loc.file, call.flag, syscallMode(call.perm),
                            loc.resolveHow)
              ELSE KFail(fs, e)
         supported == k.ok \/ k.errno \notin UnsupportedErrnos
     IN  /\ SysOpen(k, FALSE)
         /\ IF supported
            THEN /\ loc' = [loc EXCEPT !.fd = IF k.ok THEN SysFd(k) ELSE 0, !.err = SysErr(k),
                                       !.probeErr = SysErr(k)]
                 /\ pc' = "openFileImplReturn"
            ELSE /\ pc' = "openFileImplLegacy"
                 /\ loc' = [loc EXCEPT !.probeErr = SysErr(k)]
         /\ probes' = IF supported \/ probes = MaxProbes THEN probes ELSE probes + 1
  /\ UNCHANGED <<backend, forceLegacyMode, openat2Supported, other, call, ret, ncalls, History>>

\* openFileImplLegacy: split the path, start at the base descriptor
OpenFileImplLegacy ==
  /\ pc = "openFileImplLegacy"
  /\ loc' = [loc EXCEPT !.segs = Split(loc.file, "/"), !.adfd = loc.dfd, !.i = 1, !.err = NoErr]
  /\ pc' = "legacyLoop"
  /\ UNCHANGED <<Env, fs, fds, call, ret, opened, owned, ncalls, History>>

\* one round of the loop over segs[:len(segs)-1]: skip an empty segment, or
\* open the segment as a directory without following links
LegacyOpenSegment ==
  /\ pc = "legacyLoop"
  /\ loc.i < Len(loc.segs)
  /\ IF Len(loc.segs[loc.i]) = 0
     THEN /\ loc' = [loc EXCEPT !.i = @ + 1]
          /\ UNCHANGED <<pc, fs, fds, opened, owned>>
     ELSE LET k == KOpenat(fs, fds[loc.adfd], loc.segs[loc.i], WalkFlags) IN
          /\ SysOpen(k, TRUE)
          /\ loc' = [loc EXCEPT !.odfd = loc.adfd, !.adfd = SysFd(k), !.err = SysErr(k)]
          /\ pc' = "legacyCloseOld"
  /\ UNCHANGED <<Env, call, ret, ncalls, History>>

\* the same step with the close of odfd left out
LegacyCloseOldLeak ==
  /\ pc = "legacyCloseOld"
  /\ IF loc.err # NoErr
     THEN /\ loc' = [loc EXCEPT !.fd = 0]
          /\ pc' = "openFileImplReturn"
     ELSE /\ loc' = [loc EXCEPT !.i = @ + 1]
          /\ pc' = "legacyLoop"
  /\ UNCHANGED <<Env, fs, fds, owned, call, ret, opened, ncalls, History>>

\* "if odfd != dfd { unix.Close(odfd) }", then "if err != nil { return 0, err }"
LegacyCloseOld ==
  /\ pc = "legacyCloseOld"
  /\ IF loc.odfd # loc.dfd THEN SysClose(loc.odfd) ELSE UNCHANGED <<fds, owned>>
  /\ IF loc.err # NoErr
     THEN /\ loc' = [loc EXCEPT !.fd = 0]
          /\ pc' = "openFileImplReturn"
     ELSE /\ loc' = [loc EXCEPT !.i = @ + 1]
          /\ pc' = "legacyLoop"
  /\ UNCHANGED <<Env, fs, call, ret, opened, ncalls, History>>

\* the open of the last segment with the caller's flags and O_NOFOLLOW
LegacyOpenLeaf ==
  /\ pc = "legacyLoop"
  /\ loc.i >= Len(loc.segs)
  /\ LET k == KOpenat(fs, fds[loc.adfd], Last(loc.segs), call.flag \cup {"O_NOFOLLOW"}) IN
     /\ SysOpen(k, FALSE)
     /\ loc' = [loc EXCEPT !.fd = SysFd(k), !.err = SysErr(k)]
  /\ pc' = "legacyCloseLeafDir"
  /\ UNCHANGED <<Env, call, ret, ncalls, History>>

\* the same step closing adfd also when it is the base descriptor
LegacyCloseLeafDirAlways ==
  /\ pc = "legacyCloseLeafDir"
  /\ SysClose(loc.adfd)
  /\ loc' = [loc EXCEPT !.err = NoErr]
  /\ pc' = "openFileImplReturn"
  /\ UNCHANGED <<Env, fs, call, ret, opened, ncalls, History>>

\* "if adfd != dfd { err = unix.Close(adfd) }; return fd, err": the result of
\* Close replaces the error of the open
LegacyCloseLeafDir ==
  /\ pc = "legacyCloseLeafDir"
  /\ IF loc.adfd # loc.dfd
     THEN /\ SysClose(loc.adfd)
          /\ loc' = [loc EXCEPT !.err = NoErr]
     ELSE UNCHANGED <<fds, owned, loc>>
  /\ pc' = "openFileImplReturn"
  /\ UNCHANGED <<Env, fs, call, ret, opened, ncalls, History>>

\* the end of openFileImpl: the deferred unix.Close(dfd), and either the
\* error or os.NewFile of the descriptor
OpenFileImplReturn ==
  /\ pc = "openFileImplReturn"
  /\ SysClose(loc.dfd)
  /\ IF loc.err # NoErr
     THEN Return(NilFile, loc.err)
     ELSE Return(NewFile(loc.fd), NoErr)
  /\ UNCHANGED <<Env, fs, call, loc, opened, ncalls, History>>

\* ----------------------------------------- non-Linux unix (safeopen_nix.go)
NixOpenFileAt ==
  /\ pc = "start" /\ backend = "nix" /\ call.family = "At"
  /\ IF ~unixIsFilename(call.file)
     THEN /\ Return(NilFile, PathError("OpenAt", call.file, InvalidFilename))
          /\ UNCHANGED loc
     ELSE /\ loc' = [loc EXCEPT !.file = call.file]
          /\ pc' = "nixAtOpenDir"
          /\ UNCHANGED ret
  /\ UNCHANGED <<Env, fs, fds, call, opened, owned, ncalls, History>>

\* openFileAt: unix.Open of the directory
NixAtOpenDir ==
  /\ pc = "nixAtOpenDir"
  /\ LET k == KOpenDir(fs, call.directory) IN
     /\ SysOpen(k, TRUE)
     /\ IF k.ok
        THEN /\ loc' = [loc EXCEPT !.dfd = SysFd(k)]
             /\ pc' = "nixAtOpenat"
             /\ UNCHANGED ret
        ELSE /\ Return(NilFile, SysErr(k))
             /\ UNCHANGED loc
  /\ UNCHANGED <<Env, call, ncalls, History>>

\* openFileAt: unix.Openat of the file with the caller's flags and O_NOFOLLOW
NixAtOpenat ==
  /\ pc = "nixAtOpenat"
  /\ LET k == KOpenat(fs, fds[loc.dfd], loc.file, call.flag \cup {"O_NOFOLLOW"}) IN
     /\ SysOpen(k, FALSE)
     /\ loc' = [loc EXCEPT !.fd = SysFd(k), !.err = SysErr(k)]
  /\ pc' = "nixCloseLeafDir"
  /\ UNCHANGED <<Env, call, ret, ncalls, History>>

\* the validator's cleaned path is dropped: the walk gets the file as passed
NixOpenFileBeneath ==
  /\ pc = "start" /\ backend = "nix" /\ call.family = "Beneath"
  /\ IF ~unixRelativePathDoesntTraverse(call.file)
     THEN /\ Return(NilFile, PathError("OpenBeneath", call.file, InvalidFilename))
          /\ UNCHANGED loc
     ELSE /\ loc' = [loc EXCEPT !.file = call.file]
          /\ pc' = "nixBeneathOpenDir"
          /\ UNCHANGED ret
  /\ UNCHANGED <<Env, fs, fds, call, opened, owned, ncalls, History>>

\* openFileBeneath: unix.Open of the directory, then the split of the file
NixBeneathOpenDir ==
  /\ pc = "nixBeneathOpenDir"
  /\ LET k == KOpenDir(fs, call.directory) IN
     /\ SysOpen(k, TRUE)
     /\ IF k.ok
        THEN /\ loc' = [loc EXCEPT !.dfd = SysFd(k), !.segs = Split(loc.file, "/"), !.i = 1]
             /\ pc' = "nixLoop"
             /\ UNCHANGED ret
        ELSE /\ Return(NilFile, SysErr(k))
             /\ UNCHANGED loc
  /\ UNCHANGED <<Env, call, ncalls, History>>

\* one round of the loop over segs[:len(segs)-1]
NixOpenSegment ==
  /\ pc = "nixLoop"
  /\ loc.i < Len(loc.segs)
  /\ IF Len(loc.segs[loc.i]) = 0
     THEN /\ loc' = [loc EXCEPT !.i = @ + 1]
          /\ UNCHANGED <<pc, fs, fds, opened, owned>>
     ELSE LET k == KOpenat(fs, fds[loc.dfd], loc.segs[loc.i], WalkFlags) IN
          /\ SysOpen(k, TRUE)
          /\ loc' = [loc EXCEPT !.odfd = loc.dfd, !.dfd = SysFd(k), !.err = SysErr(k)]
          /\ pc' = "nixCloseOld"
  /\ UNCHANGED <<Env, call, ret, ncalls, History>>

\* the same step keeping odfd open
NixCloseOldKeep ==
  /\ pc = "nixCloseOld"
  /\ IF loc.err # NoErr
     THEN /\ Return(NilFile, loc.err)
          /\ UNCHANGED loc
     ELSE /\ loc' = [loc EXCEPT !.i = @ + 1]
          /\ pc' = "nixLoop"
          /\ UNCHANGED ret
  /\ UNCHANGED <<Env, fs, fds, owned, call, opened, ncalls, History>>

\* "unix.Close(odfd)", then "if err != nil { return nil, err }"
NixCloseOld ==
  /\ pc = "nixCloseOld"
  /\ SysClose(loc.odfd)
  /\ IF loc.err # NoErr
     THEN /\ Return(NilFile, loc.err)
          /\ UNCHANGED loc
     ELSE /\ loc' = [loc EXCEPT !.i = @ + 1]
          /\ pc' = "nixLoop"
          /\ UNCHANGED ret
  /\ UNCHANGED <<Env, fs, call, opened, ncalls, History>>

\* the open of the last segment with the caller's flags and O_NOFOLLOW
NixOpenLeaf ==
  /\ pc = "nixLoop"
  /\ loc.i >= Len(loc.segs)
  /\ LET k == KOpenat(fs, fds[loc.dfd], Last(loc.segs), call.flag \cup {"O_NOFOLLOW"}) IN
     /\ SysOpen(k, FALSE)
     /\ loc' = [loc EXCEPT !.fd = SysFd(k), !.err = SysErr(k)]
  /\ pc' = "nixCloseLeafDir"
  /\ UNCHANGED <<Env, call, ret, ncalls, History>>

\* "unix.Close(dfd)", then the error or os.NewFile (openFileAt and openFileBeneath)
NixCloseLeafDir ==
  /\ pc = "nixCloseLeafDir"
  /\ SysClose(loc.dfd)
  /\ IF loc.err # NoErr
     THEN Return(NilFile, loc.err)
     ELSE Return(NewFile(loc.fd), NoErr)
  /\ UNCHANGED <<Env, fs, call, loc, opened, ncalls, History>>

\* ------------------------------------------------- Windows (safeopen_win.go)
WinOpenFileAt ==
  /\ pc = "start" /\ backend = "win" /\ call.family = "At"
  /\ IF ~winIsSimpleFilename(call.file)
     THEN Return(NilFile, PathError("OpenAt", call.file, InvalidFilename))
     ELSE pc' = "winOpenFileBeneath" /\ UNCHANGED ret
  /\ UNCHANGED <<Env, fs, fds, call, loc, opened, owned, ncalls, History>>

\* openFileBeneath up to the validation; its error names the operation OpenAt
WinOpenFileBeneath ==
  /\ backend = "win"
  /\ pc = "winOpenFileBeneath" \/ (pc = "start" /\ call.family = "Beneath")
  /\ LET r == winRelativePathDoesntTraverse(call.file) IN
     IF ~r[2]
     THEN /\ Return(NilFile, PathError("OpenAt", call.file, InvalidFilename))
          /\ UNCHANGED loc
     ELSE /\ loc' = [loc EXCEPT !.file = r[1]]
          /\ pc' = "winOpenDir"
          /\ UNCHANGED ret
  /\ UNCHANGED <<Env, fs, fds, call, opened, owned, ncalls, History>>

\* winOpenAt of \??\directory, then the split of the sanitized file
WinOpenDir ==
  /\ pc = "winOpenDir"
  /\ LET k == KOpenDir(fs, call.directory) IN
     /\ SysOpen(k, TRUE)
     /\ IF k.ok
        THEN /\ loc' = [loc EXCEPT !.dfd = SysFd(k), !.segs = Split(loc.file, "\\"), !.i = 1]
             /\ pc' = "winLoop"
             /\ UNCHANGED ret
        ELSE /\ Return(NilFile, SysErr(k))
             /\ UNCHANGED loc
  /\ UNCHANGED <<Env, call, ncalls, History>>

\* one round of the loop over segs[:len(segs)-1]
WinOpenSegment ==
  /\ pc = "winLoop"
  /\ loc.i < Len(loc.segs)
  /\ IF Len(loc.segs[loc.i]) = 0
     THEN /\ loc' = [loc EXCEPT !.i = @ + 1]
          /\ UNCHANGED <<pc, fs, fds, opened, owned>>
     ELSE LET k == KNtCreateFile(fs, fds[loc.dfd], loc.segs[loc.i], "FILE_OPEN", TRUE) IN
          /\ SysOpen(k, TRUE)
          /\ loc' = [loc EXCEPT !.odfd = loc.dfd, !.dfd = SysFd(k), !.err = SysErr(k)]
          /\ pc' = "winCloseOld"
  /\ UNCHANGED <<Env, call, ret, ncalls, History>>

\* the same step without CloseHandle(odfd) when the open has failed
WinCloseOldNotOnError ==
  /\ pc = "winCloseOld"
  /\ IF loc.err # NoErr
     THEN /\ Return(NilFile, loc.err)
          /\ UNCHANGED <<loc, fds, owned>>
     ELSE /\ SysClose(loc.odfd)
          /\ loc' = [loc EXCEPT !.i = @ + 1]
          /\ pc' = "winLoop"
          /\ UNCHANGED ret
  /\ UNCHANGED <<Env, fs, call, opened, ncalls, History>>

\* "windows.CloseHandle(odfd)", then "if err != nil { return nil, err }"
WinCloseOld ==
  /\ pc = "winCloseOld"
  /\ SysClose(loc.odfd)
  /\ IF loc.err # NoErr
     THEN /\ Return(NilFile, loc.err)
          /\ UNCHANGED loc
     ELSE /\ loc' = [loc EXCEPT !.i = @ + 1]
          /\ pc' = "winLoop"
          /\ UNCHANGED ret
  /\ UNCHANGED <<Env, fs, call, opened, ncalls, History>>

\* the open of the last segment with the disposition derived from the flags
WinOpenLeaf ==
  /\ pc = "winLoop"
  /\ loc.i >= Len(loc.segs)
  /\ LET k == KNtCreateFile(fs, fds[loc.dfd], Last(loc.segs), winDisposition(call.flag), FALSE) IN
     /\ SysOpen(k, FALSE)
     /\ loc' = [loc EXCEPT !.fd = SysFd(k), !.err = SysErr(k)]
  /\ pc' = "winCloseLeafDir"
  /\ UNCHANGED <<Env, call, ret, ncalls, History>>

\* "windows.CloseHandle(dfd)", then the error or os.NewFile
WinCloseLeafDir ==
  /\ pc = "winCloseLeafDir"
  /\ SysClose(loc.dfd)
  /\ IF loc.err # NoErr
     THEN Return(NilFile, loc.err)
     ELSE Return(NewFile(loc.fd), NoErr)
  /\ UNCHANGED <<Env, fs, call, loc, opened, ncalls, History>>

Next ==
  \/ Call
  \/ CallWithLeadingSeparator
  \/ CallReadBack
  \/ CallWithoutEmptySegments
  \/ CallInLegacyMode
  \/ CallerClose
  \/ CallerCloseToRepeat
  \/ CallerForget
  \/ CallerWrite
  \/ CallerCloseWritten
  \/ CallerReadAll
  \/ CallerCloseRead
  \/ LinuxOpenFileAt
  \/ LinuxOpenFileBeneath
  \/ OpenFileImpl
  \/ OpenFileImplBeneathFirstForced
  \/ OpenFileImplBeneath
  \/ OpenFileImplLegacy
  \/ LegacyOpenSegment
  \/ LegacyCloseOld
  \/ LegacyOpenLeaf
  \/ LegacyCloseLeafDir
  \/ OpenFileImplReturn
  \/ NixOpenFileAt
  \/ NixAtOpenDir
  \/ NixAtOpenat
  \/ NixOpenFileBeneath
  \/ NixBeneathOpenDir
  \/ NixOpenSegment
  \/ NixCloseOld
  \/ NixOpenLeaf
  \/ NixCloseLeafDir
  \/ WinOpenFileAt
  \/ WinOpenFileBeneath
  \/ WinOpenDir
  \/ WinOpenSegment
  \/ WinCloseOld
  \/ WinOpenLeaf
  \/ WinCloseLeafDir

Spec == Init /\ [][Next]_vars

\* ------------------------------------------- two goroutines calling at once
\* Goroutines of one process share the descriptor table, the file system and
\* forceLegacyMode; each has the arguments, locals and results of its own
\* call.  The steps above are steps of the running goroutine; Switch hands
\* the processor to the other one between any two steps.
ConcFiles == {NameB, <<"a", "/", "a", "/", "b">>, DotDot}
ConcInputs ==
  {[family |-> x[1], flag |-> x[2], perm |-> IF x[2] = O_RDONLY THEN NoPerm ELSE Perm0666,
    directory |-> x[3], file |-> x[4], follow |-> "none"] :
     x \in {"At", "Beneath"} \X {O_RDONLY, CreateFlags} \X Directories \X ConcFiles}

InitConc ==
  /\ Init
  /\ backend = "linux"
  /\ openat2Supported
  /\ fs = TreeNested

\* a goroutine calls into the package
ConcCall ==
  /\ pc = "idle"
  /\ \E c \in ConcInputs : StartCall(c)
  /\ UNCHANGED <<ncalls, hist, wrote>>

\* what a goroutine writes: longer than the files of the tree
ConcData == {<<9, 8, 7>>}

\* a goroutine in WriteFileAt: f.Write(data)
ConcWrite ==
  /\ call.family = "At"
  /\ \E data \in ConcData : WriteStep(data)
  /\ UNCHANGED History

\* a goroutine in ReadFileAt: a step of io.ReadAll; what it has read so far,
\* and returns when the loop has ended, is loc.buf
ConcReadAll ==
  /\ call.family = "At"
  /\ ReadStep
  /\ UNCHANGED History

Switch ==
  /\ pc' = other.pc
  /\ call' = other.call
  /\ loc' = other.loc
  /\ ret' = other.ret
  /\ opened' = other.opened
  /\ owned' = other.owned
  /\ other' = [pc |-> pc, call |-> call, loc |-> loc, ret |-> ret,
                opened |-> opened, owned |-> owned]
  /\ UNCHANGED <<backend, forceLegacyMode, openat2Supported, probes, fs, fds, ncalls, History>>

NextConc ==
  \/ ConcCall
  \/ Switch
  \/ CallerClose
  \/ ConcWrite
  \/ CallerCloseWritten
  \/ ConcReadAll
  \/ CallerCloseRead
  \/ LinuxOpenFileAt
  \/ LinuxOpenFileBeneath
  \/ OpenFileImpl
  \/ OpenFileImplBeneathFirstForced
  \/ OpenFileImplBeneath
  \/ OpenFileImplLegacy
  \/ LegacyOpenSegment
  \/ LegacyCloseOld
  \/ LegacyOpenLeaf
  \/ LegacyCloseLeafDir
  \/ OpenFileImplReturn

SpecConc == InitConc /\ [][NextConc]_vars

\* ------------------------------------------------------------------ claims
Sep(b) == IF b = "win" THEN "\\" ELSE "/"
\* the normalized form the claims speak of: separators unified, leading
\* separators stripped, "." and ".." collapsed
NormalForm(b, path) ==
  LET unified == IF b = "win" THEN ReplaceAll(path, "/", "\\") ELSE path
  IN  Clean(TrimLeft(unified, Sep(b)), Sep(b))
HasDotComponent(b, path) ==
  LET unified == IF b = "win" THEN ReplaceAll(path, "/", "\\") ELSE path
  IN  \E i \in 1..Len(Split(unified, Sep(b))) : Split(unified, Sep(b))[i] \in {Dot, DotDot}
ContainsSeparator(b, path) == Contains(path, "/") \/ (b = "win" /\ Contains(path, "\\"))

\* the node a sequence of plain names leads to from the base, going through
\* directories only; <<>> (the root) when there is none
RECURSIVE PlainLookup(_, _, _)
PlainLookup(f, cur, comps) ==
  IF Len(comps) = 0 THEN cur
  ELSE LET child == Append(cur, Head(comps)) IN
       IF f[cur].kind = "dir" /\ child \in DOMAIN f
       THEN PlainLookup(f, child, Tail(comps))
       ELSE RootNode

\* walking plain names from the base runs into a symbolic link
RECURSIVE HitsLink(_, _, _)
HitsLink(f, cur, comps) ==
  IF Len(comps) = 0 THEN FALSE
  ELSE LET child == Append(cur, Head(comps)) IN
       /\ child \in DOMAIN f
       /\ \/ f[child].kind = "link"
          \/ f[child].kind = "dir" /\ HitsLink(f, child, Tail(comps))

Done == pc = "done"
InBase == call.directory = ExistingDir
Rejected(e) == e.kind = "PathError" /\ e.cause = InvalidFilename
\* openat2 refuses the call's open_how: a mode without O_CREAT
ModeRefused == syscallMode(call.perm) # 0 /\ "O_CREATE" \notin call.flag
LegacyWalkUsed ==
  backend = "linux" /\ (forceLegacyMode \/ ~openat2Supported \/ ModeRefused)

\* C1: in a tree without symbolic links, every directory handle a call obtains
\* and the object it finally opens is the base directory or lies beneath it
C1_NeverOpensOutsideBase ==
  SymlinkFree(fs) => \A i \in 1..Len(opened) : IsBeneath(opened[i], BaseNode)

\* C2: a call whose path has a symbolic link as a component fails with an error
\* (stated for the Linux legacy segment walk)
C2_SymlinkFailsInLegacyWalk ==
  (Done /\ InBase /\ LegacyWalkUsed /\ ~HasDotComponent(backend, call.file)
     /\ HitsLink(fs, BaseNode, Components(call.file, "/")))
  => ret.err # NoErr

\* C3: a Beneath call whose input is empty, or whose normalized form is ".."
\* or begins with "..", fails with the invalid-filename error
C3_EscapingInputRejected ==
  (Done /\ call.family = "Beneath"
     /\ (Len(call.file) = 0 \/ Escapes(NormalForm(backend, call.file), Sep(backend))))
  => Rejected(ret.err)

\* C4: an At call whose name contains a separator, or is "." or "..", fails
\* with the invalid-filename error and opens nothing
C4_AtRejectsSeparators ==
  (Done /\ call.family = "At"
     /\ (ContainsSeparator(backend, call.file) \/ call.file \in {Dot, DotDot}))
  => (Rejected(ret.err) /\ ret.f = NilFile /\ opened = <<>>)

\* C4 witness: "a/b" names an existing file in the base and OpenAt refused it
C4_Witness ==
  /\ Done /\ call.family = "At" /\ InBase
  /\ call.file = <<"a", "/", "b">>
  /\ <<NameD, NameA, NameB>> \in DOMAIN fs
  /\ Rejected(ret.err)

\* C5: a call returns exactly one of a file and an error
C5_FileXorError ==
  Done => ((ret.f = NilFile) # (ret.err = NoErr))

\* C6: when a call has returned, the only descriptor left open is the returned
\* file, also while the caller writes to it or reads from it; once the caller
\* has closed it, none is
C6_NoDescriptorLeak ==
  /\ Done => (owned = {} /\ DOMAIN fds = (IF ret.f = NilFile THEN {} ELSE {ret.f}))
  /\ pc \in {"written", "readAll", "readDone"}
       => (owned = {} /\ DOMAIN fds = (IF ret.f = NilFile THEN {} ELSE {ret.f}))
  /\ pc = "idle" => DOMAIN fds = {}

\* C6 witness: a forced-legacy walk through two directories has returned a file
C6_Witness ==
  /\ Done /\ backend = "linux" /\ forceLegacyMode
  /\ Len(opened) = 4 /\ ret.f # NilFile

\* C7: a Beneath open of a path with "." or ".." components whose normalized
\* form names an existing file in the base succeeds and opens that file
C7_OpensNormalizedPath ==
  LET norm == NormalForm(backend, call.file)
      target == PlainLookup(fs, BaseNode, Components(norm, Sep(backend)))
  IN  (Done /\ InBase /\ call.family = "Beneath" /\ call.flag = O_RDONLY
         /\ HasDotComponent(backend, call.file)
         /\ ~Escapes(norm, Sep(backend))
         /\ target # RootNode /\ fs[target].kind = "file")
      => (ret.err = NoErr /\ ret.f # NilFile /\ RetNode = target)

\* C8: for a non-empty p, OpenBeneath(base, sep + p) is accepted or rejected by
\* the validation as OpenBeneath(base, p) is, and opens the same file
C8_LeadingSeparatorIgnored ==
  (Done /\ InBase /\ call.follow = "sep" /\ Len(hist.call.file) > 0)
  => /\ Rejected(ret.err) = Rejected(hist.err)
     /\ (ret.f # NilFile) = hist.ok
     /\ hist.ok => RetNode = hist.node

\* C9: every error returned is a *PathError, and the validation error of a
\* Beneath call carries the path the caller passed
C9_ErrorsArePathErrors ==
  (Done /\ ret.err # NoErr)
  => /\ ret.err.kind = "PathError"
     /\ (call.family = "Beneath" /\ Rejected(ret.err)) => ret.err.path = call.file

\* C10: reading back through the matching open what a create operation wrote
\* succeeds and yields exactly the bytes written
C10_RoundTrip ==
  /\ (Done /\ call.follow = "readback") => (ret.err = NoErr /\ ret.f # NilFile)
  /\ (lastRead.valid /\ lastRead.readback)
       => (lastRead.ok /\ lastRead.data = wrote.data)

\* C10 witness: b held <<1, 2>>, CreateAt and a write of <<7>> replaced it, and
\* the read through OpenAt gave <<7>>
C10_Witness ==
  /\ pc = "idle" /\ lastRead.valid /\ lastRead.readback
  /\ wrote.call.family = "At" /\ wrote.call.file = NameB
  /\ wrote.data = <<7>> /\ lastRead.data = <<7>>
  /\ <<NameD, NameB, NameA>> \notin DOMAIN fs /\ <<NameD, NameB>> \in DOMAIN fs

\* the openat2 call of the fast path is what opens the file
FastPathUsed == backend = "linux" /\ ~forceLegacyMode /\ openat2Supported /\ ~ModeRefused

\* the first symbolic link a walk of plain names runs into; the root when none
RECURSIVE FirstLink(_, _, _)
FirstLink(f, cur, comps) ==
  IF Len(comps) = 0 THEN RootNode
  ELSE LET child == Append(cur, Head(comps)) IN
       IF child \notin DOMAIN f THEN RootNode
       ELSE IF f[child].kind = "link" THEN child
       ELSE IF f[child].kind = "dir" THEN FirstLink(f, child, Tail(comps))
       ELSE RootNode

\* the target of the link is absolute, or climbs out of the base with ".."
LinkLeavesBase(f, link) ==
  LET dir == Join(SubSeq(link, 2, Len(link) - 1), "/")
      joined == IF Len(dir) = 0 THEN f[link].target ELSE dir \o <<"/">> \o f[link].target
  IN  HasPrefix(f[link].target, <<"/">>) \/ Escapes(Clean(joined, "/"), "/")

\* C11: on Linux, OpenAt of a symbolic link fails whatever its target and
\* whether or not openat2 is there; on the openat2 fast path a Beneath call
\* that succeeds has opened a non-link object beneath the base, and a path
\* running into a link whose target is absolute or climbs out of the base fails
C11_SymlinksFollowedOnlyBeneath ==
  LET child == Append(BaseNode, call.file)
      link == FirstLink(fs, BaseNode, Components(call.file, "/"))
  IN  (Done /\ backend = "linux" /\ InBase) =>
        /\ (call.family = "At" /\ child \in DOMAIN fs /\ fs[child].kind = "link")
             => (ret.err # NoErr /\ ret.f = NilFile)
        /\ (call.family = "Beneath" /\ FastPathUsed) =>
             /\ ret.f # NilFile =>
                  /\ IsBeneath(RetNode, BaseNode) /\ fs[RetNode].kind # "link"
                  /\ \A i \in 1..Len(opened) : IsBeneath(opened[i], BaseNode)
             /\ (~HasDotComponent(backend, call.file) /\ link # RootNode /\ LinkLeavesBase(fs, link))
                  => (ret.err # NoErr /\ ret.f = NilFile)

\* C11 witness: the fast path went through the link a -> b and opened b/a
C11_Witness ==
  /\ Done /\ FastPathUsed /\ InBase /\ call.family = "Beneath"
  /\ call.file = <<"a", "/", "a">>
  /\ <<NameD, NameA>> \in DOMAIN fs /\ fs[<<NameD, NameA>>].kind = "link"
  /\ ret.f # NilFile /\ RetNode = <<NameD, NameB, NameA>>

\* C12: OpenBeneath under forceLegacyMode = true has the outcome it had under
\* forceLegacyMode = false: both open the same file, or both fail with an error
C12_LegacyEquivalentToFastPath ==
  (Done /\ InBase /\ call.follow = "legacy")
  => /\ (ret.f # NilFile) = hist.ok
     /\ (ret.err # NoErr) = (hist.err # NoErr)
     /\ hist.ok => RetNode = hist.node

\* C13: the openat2 call is made at most once after it has been found
\* unsupported: no call repeats it once one has failed as unsupported
C13_UnsupportedProbedOnce == probes <= 1

\* openFileImplLegacy was entered by the call
LegacyRan == backend = "linux" /\ loc.i > 0
\* the error class the claim calls unsupported
UnsupportedClass == {"ENOSYS", "ENOTSUP", "EOPNOTSUPP", "EINVAL"}

\* C14: once the base directory is open, the legacy walk runs exactly when
\* forceLegacyMode is set or openat2 failed with an error of the unsupported
\* class; the call then returns the walk's result and never the unsupported
\* error; any other openat2 error is returned as it is, without a walk
C14_LegacyOnlyWhenUnsupported ==
  (Done /\ backend = "linux" /\ loc.dfd # -1) =>
    /\ LegacyRan <=> (forceLegacyMode \/ loc.probeErr.cause \in UnsupportedClass)
    /\ LegacyRan =>
         /\ ret.err = loc.err
         /\ ret.f = (IF loc.err = NoErr THEN NewFile(loc.fd) ELSE NilFile)
         /\ ~(ret.err.kind = "Errno" /\ ret.err.cause \in UnsupportedClass)
         /\ loc.segs = Split(loc.file, "/")
    /\ (loc.probeErr # NoErr /\ loc.probeErr.cause \notin UnsupportedClass)
         => (ret.err = loc.probeErr /\ ret.f = NilFile /\ ~LegacyRan /\ Len(opened) = 1)

\* C14 witness: openat2 of a kernel that has it answered EINVAL (a mode
\* without O_CREAT), the legacy walk went through a directory and its file is
\* what the call returned
C14_Witness ==
  /\ Done /\ backend = "linux" /\ ~forceLegacyMode /\ openat2Supported
  /\ loc.probeErr = Errno("EINVAL") /\ LegacyRan
  /\ Len(opened) = 3 /\ ret.f # NilFile /\ ret.err = NoErr

\* C15: the step that returns the invalid-filename error is taken by a call
\* that has opened nothing and assigned no local, while no descriptor is open,
\* and it leaves the descriptor table and the file system as they are
C15_RejectedBeforeAnyOpen ==
  [][(pc # "done" /\ pc' = "done" /\ Rejected(ret'.err)) =>
       /\ opened = <<>> /\ loc = LocInit /\ fds = <<>> /\ owned = {}
       /\ opened' = <<>> /\ fds' = fds /\ owned' = {} /\ fs' = fs
       /\ ret'.f = NilFile]_vars

\* C15 witness: CreateBeneath of "../b" was rejected; nothing is open and the
\* file b outside the base still has its content
C15_Witness ==
  /\ Done /\ Rejected(ret.err) /\ InBase
  /\ call.family = "Beneath" /\ call.flag = CreateFlags
  /\ call.file = <<".", ".", "/", "b">>
  /\ opened = <<>> /\ fds = <<>> /\ fs[<<NameB>>].data = <<9>>

\* C16: at every point of a call, the call owns at most two open directory
\* descriptors
C16_AtMostTwoDirectoryHandles == Cardinality(owned) <= 2

\* the call has opened the next directory and not yet closed the previous one
BetweenOpenAndClose == pc \in {"legacyCloseOld", "nixCloseOld", "winCloseOld"}

\* C16 as amended: a call owns at most three open directory descriptors on
\* Linux (the base, kept until the call returns, the previous and the new
\* one) and at most two elsewhere; the previous one is closed in the step
\* after the open, which leaves the base and the current one on Linux and the
\* current one elsewhere
C16_DirectoryHandlesBounded ==
  /\ owned \subseteq DOMAIN fds
  /\ Cardinality(owned) <= (IF backend = "linux" THEN 3 ELSE 2)
  /\ ~BetweenOpenAndClose => Cardinality(owned) <= (IF backend = "linux" THEN 2 ELSE 1)

\* C16 witness: the Linux legacy walk holds the base, a and a/a at once
C16_Witness ==
  /\ backend = "linux" /\ pc = "legacyCloseOld"
  /\ Cardinality(owned) = 3
  /\ owned = {loc.dfd, loc.odfd, loc.adfd}

\* the components are opened one by one (no openat2)
SegmentWalkUsed == backend \in {"nix", "win"} \/ LegacyWalkUsed

\* C17: in the segment walk OpenBeneath of a path (here one without "." and
\* ".." segments) has the outcome of OpenBeneath of the path without its empty
\* segments: both open the same object or both fail
C17_EmptySegmentsDropped ==
  (Done /\ InBase /\ SegmentWalkUsed /\ call.follow = "noempty"
     /\ ~HasDotComponent(backend, call.file))
  => /\ (ret.f # NilFile) = hist.ok
     /\ (ret.err # NoErr) = (hist.err # NoErr)
     /\ hist.ok => RetNode = hist.node

\* C18: the open of the leaf on Windows, the leaf being a regular file or
\* missing: without O_CREATE a missing leaf is an error and nothing is
\* created; with O_CREATE a missing leaf is created and an existing one is
\* opened; an existing leaf is emptied exactly when O_TRUNC is given
C18_WinDispositionLikePosix ==
  [][(backend = "win" /\ pc = "winLoop" /\ pc' = "winCloseLeafDir"
        /\ Len(Last(loc.segs)) > 0 /\ Last(loc.segs) \notin {Dot, DotDot}) =>
       LET n == Append(fds[loc.dfd], Last(loc.segs))
           existed == n \in DOMAIN fs
       IN  /\ (~existed /\ "O_CREATE" \notin call.flag) => (loc'.err # NoErr /\ fs' = fs)
           /\ (~existed /\ "O_CREATE" \in call.flag)
                => (loc'.err = NoErr /\ n \in DOMAIN fs' /\ fds'[loc'.fd] = n)
           /\ (existed /\ fs[n].kind = "file") =>
                /\ loc'.err = NoErr /\ fds'[loc'.fd] = n
                /\ fs'[n].data = (IF "O_TRUNC" \in call.flag THEN <<>> ELSE fs[n].data)]_vars

\* where one segment leads from a directory
SegmentStep(cur, name) ==
  IF name = Dot THEN cur ELSE IF name = DotDot THEN Parent(cur) ELSE Append(cur, name)

\* the step is the open of the last segment
LeafOpenStep ==
  /\ pc \in {"legacyLoop", "nixLoop", "winLoop"}
  /\ pc' \in {"legacyCloseLeafDir", "nixCloseLeafDir", "winCloseLeafDir"}

\* the step follows an intermediate open that failed
AfterFailedIntermediateOpen ==
  pc \in {"legacyCloseOld", "nixCloseOld", "winCloseOld"} /\ loc.err # NoErr

\* C19: the last segment is opened only when every non-empty segment before it
\* has been opened, in path order, each a directory that is no symbolic link;
\* after a failed intermediate open the previous handle is closed, the call
\* goes on to return that error (and does return it), and the file system is
\* left as it is
C19_LeafOnlyAfterIntermediates ==
  [][/\ LeafOpenStep =>
          LET inter == SelectSeq(Front(loc.segs), NonEmpty) IN
          /\ loc.err = NoErr
          /\ Len(opened) = 1 + Len(inter)
          /\ \A j \in 1..Len(inter) :
               /\ opened[j + 1] = SegmentStep(opened[j], inter[j])
               /\ fs[opened[j + 1]].kind = "dir"
     /\ AfterFailedIntermediateOpen =>
          /\ pc' \in {"done", "openFileImplReturn"}
          /\ fs' = fs /\ opened' = opened
          /\ owned' \subseteq (IF backend = "linux" THEN {loc.dfd} ELSE {})
          /\ pc' = "done" => (ret'.err = loc.err /\ ret'.f = NilFile)
          /\ pc' = "openFileImplReturn" => loc'.err = loc.err
     /\ (pc = "openFileImplReturn" /\ loc.err # NoErr)
          => (pc' = "done" /\ ret'.err = loc.err /\ ret'.f = NilFile /\ fs' = fs /\ owned' = {})
    ]_vars

\* C19 as amended: the last segment is opened only when every non-empty
\* segment before it has been opened, in path order and without following a
\* link: on the unix walks each is a directory that is no symbolic link, on
\* Windows each is an object with the directory attribute (a directory link
\* is opened as the link itself); after a failed intermediate open the
\* previous handle is closed, the call returns that error, and the file
\* system is left as it is
C19_LeafAfterIntermediatesInOrder ==
  [][/\ LeafOpenStep =>
          LET inter == SelectSeq(Front(loc.segs), NonEmpty) IN
          /\ loc.err = NoErr
          /\ Len(opened) = 1 + Len(inter)
          /\ \A j \in 1..Len(inter) :
               /\ opened[j + 1] = SegmentStep(opened[j], inter[j])
               /\ IF backend = "win" THEN fs[opened[j + 1]].isdir
                  ELSE fs[opened[j + 1]].kind = "dir"
     /\ AfterFailedIntermediateOpen =>
          /\ pc' \in {"done", "openFileImplReturn"}
          /\ fs' = fs /\ opened' = opened
          /\ owned' \subseteq (IF backend = "linux" THEN {loc.dfd} ELSE {})
          /\ pc' = "done" => (ret'.err = loc.err /\ ret'.f = NilFile)
          /\ pc' = "openFileImplReturn" => loc'.err = loc.err
     /\ (pc = "openFileImplReturn" /\ loc.err # NoErr)
          => (pc' = "done" /\ ret'.err = loc.err /\ ret'.f = NilFile /\ fs' = fs /\ owned' = {})
    ]_vars

\* C19 witness: CreateBeneath of "b/a" where b is a regular file: the open of
\* b as a directory failed, that error was returned and b/a was not created
C19_Witness ==
  /\ Done /\ InBase /\ call.family = "Beneath" /\ call.flag = CreateFlags
  /\ call.file = <<"b", "/", "a">>
  /\ fs[<<NameD, NameB>>].kind = "file"
  /\ loc.i = 1 /\ ret.err = loc.err /\ ret.err # NoErr /\ ret.f = NilFile
  /\ <<NameD, NameB, NameA>> \notin DOMAIN fs

\* the running goroutine, as the other one is kept
Regs == [pc |-> pc, call |-> call, loc |-> loc, ret |-> ret, opened |-> opened, owned |-> owned]

\* the descriptors the next step of a goroutine closes
NextCloses(r) ==
  CASE r.pc \in {"legacyCloseOld"} -> IF r.loc.odfd # r.loc.dfd THEN {r.loc.odfd} ELSE {}
    [] r.pc = "legacyCloseLeafDir" -> IF r.loc.adfd # r.loc.dfd THEN {r.loc.adfd} ELSE {}
    [] r.pc \in {"nixCloseOld", "winCloseOld"} -> {r.loc.odfd}
    [] r.pc \in {"openFileImplReturn", "nixCloseLeafDir", "winCloseLeafDir"} -> {r.loc.dfd}
    [] OTHER -> {}

\* the directory descriptor the next step of a goroutine passes to an open
NextOpensAt(r) ==
  CASE r.pc = "legacyLoop" -> {r.loc.adfd}
    [] r.pc \in {"openFileImplBeneathFirst", "nixAtOpenat", "nixLoop", "winLoop"} -> {r.loc.dfd}
    [] OTHER -> {}

\* the file descriptor a goroutine has got from its last open
FileHeld(r) ==
  IF r.pc \in {"done", "written", "readAll", "readDone"}
  THEN (IF r.ret.f = NilFile THEN {} ELSE {r.ret.f})
  ELSE IF r.pc \in {"legacyCloseLeafDir", "openFileImplReturn", "nixCloseLeafDir", "winCloseLeafDir"}
          /\ r.loc.fd > 0
       THEN {r.loc.fd}
       ELSE {}

\* what a goroutine closes next and what it opens at next are descriptors it
\* owns, and what it owns is open
OwnsWhatItUses(r) ==
  /\ NextCloses(r) \subseteq r.owned
  /\ NextOpensAt(r) \subseteq r.owned
  /\ r.owned \cup FileHeld(r) \subseteq DOMAIN fds
  /\ r.owned \cap FileHeld(r) = {}

\* C20: with two goroutines calling at once on one descriptor table, each
\* step closes and opens at descriptors its own call owns (so none closes a
\* descriptor of the other call, closes one twice or uses one it has closed),
\* no descriptor belongs to both calls, and no step of a call writes
\* forceLegacyMode
C20_CallsKeepToTheirDescriptors ==
  [][/\ forceLegacyMode' = forceLegacyMode
     /\ OwnsWhatItUses(Regs)' /\ OwnsWhatItUses(other)'
     /\ ((owned \cup FileHeld(Regs)) \cap (other.owned \cup FileHeld(other)) = {})'
    ]_vars

\* C20 witness: both goroutines are in a call, and the running one got for a
\* directory a descriptor number below that of its base directory: a number
\* the other call had closed
C20_Witness ==
  /\ pc = "legacyCloseOld" /\ loc.err = NoErr
  /\ loc.adfd < loc.dfd
  /\ other.owned # {} /\ other.pc \notin {"idle", "done"}
====
